---- MODULE Spec2Model ----
(***************************************************************************)
(* A model of the WhatsApp bot of kartikmehta8/twilio-gemini-bot: the      *)
(* Flask webhook bot() (src/app.py), the CommandHandler dispatcher         *)
(* (src/handlers/commands.py) and the two generation backends              *)
(* (src/models/gemini.py, src/models/openai.py).                           *)
(*                                                                         *)
(* A Python str is a sequence of one-character strings.  A value that may  *)
(* be None (an environment variable, what a handler returns, the body of   *)
(* a reply) is Str(s) or None.  What a call does is Return(v) or           *)
(* Raise(e); Blocked stands for a call that waits on its outbound request. *)
(***************************************************************************)
EXTENDS Integers, Sequences, FiniteSets, TLC

VARIABLES env, genai, app, command_handler, req

vars == <<env, genai, app, command_handler, req>>

-----------------------------------------------------------------------------
(* Bounds of the model. *)

\* A request body is the concatenation of at most MaxPieces pieces.
MaxPieces == 5

\* The number of requests in flight at once in SpecConc.
NumRequests == 2

-----------------------------------------------------------------------------
(* Python values. *)

None == [t |-> "None"]

Str(s) == [t |-> "str", v |-> s]

Return(v) == [k |-> "return", v |-> v]

Raise(e) == [k |-> "raise", e |-> e]

Blocked == [k |-> "blocked"]

-----------------------------------------------------------------------------
(* The string literals of the source. *)

\* commands.py:63  "An error occurred while processing your command."
CommandErrorText ==
    <<"A", "n", " ", "e", "r", "r", "o", "r", " ", "o", "c", "c", "u", "r",
      "r", "e", "d", " ", "w", "h", "i", "l", "e", " ", "p", "r", "o", "c",
      "e", "s", "s", "i", "n", "g", " ", "y", "o", "u", "r", " ", "c", "o",
      "m", "m", "a", "n", "d", ".">>

\* commands.py:82, 102  "An error occurred while generating a response."
GenerateErrorText ==
    <<"A", "n", " ", "e", "r", "r", "o", "r", " ", "o", "c", "c", "u", "r",
      "r", "e", "d", " ", "w", "h", "i", "l", "e", " ", "g", "e", "n", "e",
      "r", "a", "t", "i", "n", "g", " ", "a", " ", "r", "e", "s", "p", "o",
      "n", "s", "e", ".">>

\* commands.py:83  "Gemini model is not available."
GeminiUnavailableText ==
    <<"G", "e", "m", "i", "n", "i", " ", "m", "o", "d", "e", "l", " ", "i",
      "s", " ", "n", "o", "t", " ", "a", "v", "a", "i", "l", "a", "b", "l",
      "e", ".">>

\* commands.py:103  "OpenAI model is not available."
OpenaiUnavailableText ==
    <<"O", "p", "e", "n", "A", "I", " ", "m", "o", "d", "e", "l", " ", "i",
      "s", " ", "n", "o", "t", " ", "a", "v", "a", "i", "l", "a", "b", "l",
      "e", ".">>

\* commands.py:116  "Sorry, I didn't understand that command."
DefaultText ==
    <<"S", "o", "r", "r", "y", ",", " ", "I", " ", "d", "i", "d", "n", "'",
      "t", " ", "u", "n", "d", "e", "r", "s", "t", "a", "n", "d", " ", "t",
      "h", "a", "t", " ", "c", "o", "m", "m", "a", "n", "d", ".">>

\* app.py:47  "Sorry, an error occurred while processing your request."
ApologyText ==
    <<"S", "o", "r", "r", "y", ",", " ", "a", "n", " ", "e", "r", "r", "o",
      "r", " ", "o", "c", "c", "u", "r", "r", "e", "d", " ", "w", "h", "i",
      "l", "e", " ", "p", "r", "o", "c", "e", "s", "s", "i", "n", "g", " ",
      "y", "o", "u", "r", " ", "r", "e", "q", "u", "e", "s", "t", ".">>

\* openai.py:31  the default of OPENAI_MODEL, "gpt-3.5-turbo-instruct"
DefaultOpenaiModel ==
    <<"g", "p", "t", "-", "3", ".", "5", "-", "t", "u", "r", "b", "o", "-",
      "i", "n", "s", "t", "r", "u", "c", "t">>

\* gemini.py:67  "Answer this question in "
PromptHead ==
    <<"A", "n", "s", "w", "e", "r", " ", "t", "h", "i", "s", " ", "q", "u",
      "e", "s", "t", "i", "o", "n", " ", "i", "n", " ">>

\* gemini.py:67  " words: "
PromptTail ==
    <<" ", "w", "o", "r", "d", "s", ":", " ">>

\* commands.py:37, 41, 76  the key "gemini"
KwGemini ==
    <<"g", "e", "m", "i", "n", "i">>

\* commands.py:38, 42, 96  the key "openai"
KwOpenai ==
    <<"o", "p", "e", "n", "a", "i">>

\* The cased letters str.lower() maps, and what it maps them to.
UpperLetters ==
    <<"A", "B", "C", "D", "E", "F", "G", "H", "I", "J", "K", "L", "M", "N",
      "O", "P", "Q", "R", "S", "T", "U", "V", "W", "X", "Y", "Z">>

\* "abcdefghijklmnopqrstuvwxyz"
LowerLetters ==
    <<"a", "b", "c", "d", "e", "f", "g", "h", "i", "j", "k", "l", "m", "n",
      "o", "p", "q", "r", "s", "t", "u", "v", "w", "x", "y", "z">>

Digits == <<"0", "1", "2", "3", "4", "5", "6", "7", "8", "9">>

-----------------------------------------------------------------------------
(* The Python built-ins the source calls. *)

\* The characters str.split() and str.strip() treat as whitespace.
Whitespace == {" ", "\t", "\n"}

\* str.lower() on one character.
LowerChar(c) ==
    IF \E i \in 1..Len(UpperLetters) : UpperLetters[i] = c
    THEN LowerLetters[CHOOSE i \in 1..Len(UpperLetters) : UpperLetters[i] = c]
    ELSE c

\* A first word that is not lower-cased.
str_lower_missing(s) == s

\* s.lower()
str_lower(s) == [i \in 1..Len(s) |-> LowerChar(s[i])]

\* s.split(): scans s from position i; cur is the word being read and acc
\* the words read so far.  A run of whitespace ends a word and adds nothing.
RECURSIVE SplitFrom(_, _, _, _)
SplitFrom(s, i, cur, acc) ==
    IF i > Len(s)
    THEN IF cur = <<>> THEN acc ELSE Append(acc, cur)
    ELSE IF s[i] \in Whitespace
         THEN SplitFrom(s, i + 1, <<>>,
                        IF cur = <<>> THEN acc ELSE Append(acc, cur))
         ELSE SplitFrom(s, i + 1, Append(cur, s[i]), acc)

str_split(s) == SplitFrom(s, 1, <<>>, <<>>)

\* sep.join(words)
RECURSIVE str_join(_, _)
str_join(sep, words) ==
    IF words = <<>> THEN <<>>
    ELSE IF Len(words) = 1 THEN words[1]
    ELSE words[1] \o sep \o str_join(sep, Tail(words))

\* s.strip(): drops whitespace from the left end, then from the right end.
RECURSIVE LStrip(_)
LStrip(s) ==
    IF s # <<>> /\ s[1] \in Whitespace THEN LStrip(Tail(s)) ELSE s

RECURSIVE RStrip(_)
RStrip(s) ==
    IF s # <<>> /\ s[Len(s)] \in Whitespace
    THEN RStrip(SubSeq(s, 1, Len(s) - 1))
    ELSE s

str_strip(s) == RStrip(LStrip(s))

\* str(n) of a natural number, as an f-string formats it.
RECURSIVE int_str(_)
int_str(n) ==
    IF n < 10 THEN <<Digits[n + 1]>>
    ELSE int_str(n \div 10) \o <<Digits[(n % 10) + 1]>>

\* d.get(key): the value under key, or None.
dict_get(d, key) == IF key \in DOMAIN d THEN d[key] ELSE None

\* os.getenv(name, default)
getenv(e, name, default) == IF e[name] = None THEN default ELSE e[name]

\* request.values.get(field, default)
form_get(form, field, default) ==
    IF field \in DOMAIN form THEN form[field] ELSE default

-----------------------------------------------------------------------------
(* The outbound calls and what comes back. *)

\* The call has been issued and has not come back.
Pending == [k |-> "pending"]

\* What the provider's text can be, when the call succeeds.
Texts == {<<"o", "k">>, <<" ", "o", "k", "\n">>}

\* model.generate_content(...) returns a response with a text, or raises.
GeminiOutcomes ==
    {[k |-> "ok", text |-> x] : x \in Texts} \cup {[k |-> "error"]}

\* requests.post(...) raises (no connection), or answers with an error
\* status (raise_for_status() raises HTTPError), or with a body that has no
\* choices[0].text (the subscript raises), or with a completion.
OpenaiFailures ==
    {[k |-> "connection_error"], [k |-> "http_error"], [k |-> "malformed"]}

OpenaiOutcomes == {[k |-> "ok", text |-> x] : x \in Texts} \cup OpenaiFailures

\* The outcomes of one issued call.  A completions request whose bearer
\* token is "Bearer None" is not authorised: it never succeeds.
OutcomesOf(call) ==
    IF call.to = "gemini" THEN GeminiOutcomes
    ELSE IF call.bearer = None THEN OpenaiFailures
    ELSE OpenaiOutcomes

-----------------------------------------------------------------------------
(* src/models/gemini.py *)

WordLimit == 100

\* A constructor that prints the configuration failure and carries on.
GeminiModelSwallows(e, api_key, configure) ==
    Return([class |-> "GeminiModel",
            api_key |-> api_key,
            model |-> getenv(e, "GEMINI_MODEL", None),
            word_limit |-> WordLimit])

\* GeminiModel.__init__(api_key); configure is what genai.configure does,
\* "ok" or "raise".  The except clause prints and re-raises.
GeminiModel(e, api_key, configure) ==
    IF configure = "raise"
    THEN Raise("genai.configure")
    ELSE Return([class |-> "GeminiModel",
                 api_key |-> api_key,
                 model |-> getenv(e, "GEMINI_MODEL", None),
                 word_limit |-> WordLimit])

\* The prompt of line 67.
GeminiPrompt(self, question) ==
    PromptHead \o int_str(self.word_limit) \o PromptTail \o question

\* GeminiModel.generate_response(question).  lib is what
\* genai.GenerativeModel(self.model) does, "ok" or "raise" (it raises for a
\* model name of None); net is the outcome of generate_content.  Every
\* exception is printed and re-raised.  calls lists the outbound calls made.
GeminiGenerateResponse(self, question, lib, net) ==
    IF lib = "raise"
    THEN [calls |-> <<>>, res |-> Raise("GenerativeModel")]
    ELSE LET call == [to |-> "gemini", model |-> self.model,
                      prompt |-> GeminiPrompt(self, question)]
         IN  [calls |-> <<call>>,
              res |-> CASE net.k = "pending" -> Blocked
                        [] net.k = "ok" -> Return(Str(net.text))
                        [] OTHER -> Raise(net.k)]

-----------------------------------------------------------------------------
(* src/models/openai.py *)

\* OpenaiModel.__init__(api_key): three assignments, nothing that raises.
OpenaiModel(e, api_key) ==
    Return([class |-> "OpenaiModel",
            api_key |-> api_key,
            model |-> getenv(e, "OPENAI_MODEL", Str(DefaultOpenaiModel)),
            word_limit |-> WordLimit])

\* A generate_response that posts a second time when the first post fails.
OpenaiGenerateResponseRetry(self, question, net) ==
    LET call == [to |-> "openai", engine |-> self.model, prompt |-> question,
                 max_tokens |-> self.word_limit * 5, bearer |-> self.api_key]
    IN  [calls |-> IF net.k \in {"pending", "ok"} THEN <<call>>
                   ELSE <<call, call>>,
         res |-> CASE net.k = "pending" -> Blocked
                   [] net.k = "ok" -> Return(Str(str_strip(net.text)))
                   [] OTHER -> Return(None)]

\* OpenaiModel.generate_response(question): one requests.post; both except
\* clauses print and fall through to "return None".
OpenaiGenerateResponse(self, question, net) ==
    LET call == [to |-> "openai", engine |-> self.model, prompt |-> question,
                 max_tokens |-> self.word_limit * 5, bearer |-> self.api_key]
    IN  [calls |-> <<call>>,
         res |-> CASE net.k = "pending" -> Blocked
                   [] net.k = "ok" -> Return(Str(str_strip(net.text)))
                   [] OTHER -> Return(None)]

-----------------------------------------------------------------------------
(* src/handlers/commands.py *)

\* The backend a key of the models mapping stands for.
BackendName(key) == IF key = KwGemini THEN "gemini" ELSE "openai"

\* CommandHandler.__init__(): the two mappings.  A constructor that raises
\* ends __init__ with that exception.
CommandHandler(e, configure) ==
    LET g == GeminiModel(e, e["GEMINI_API_KEY"], configure)
        o == OpenaiModel(e, e["OPENAI_API_KEY"])
    IN  IF g.k = "raise" THEN g
        ELSE IF o.k = "raise" THEN o
        ELSE Return([commands |-> (KwGemini :> "handle_gemini")
                                  @@ (KwOpenai :> "handle_openai"),
                     models |-> (KwGemini :> g.v) @@ (KwOpenai :> o.v)])

\* A handle_gemini without the "if model:" test: with no instance the
\* attribute lookup on None raises inside the try.
handle_gemini_unchecked(self, message, lib, net) ==
    LET model == dict_get(self.models, KwGemini)
    IN  IF model # None
        THEN LET g == GeminiGenerateResponse(model, message, lib, net)
             IN  [calls |-> g.calls,
                  asked |-> <<[backend |-> BackendName(KwGemini),
                               question |-> message,
                               res |-> g.res]>>,
                  res |-> IF g.res.k = "raise"
                          THEN Return(Str(GenerateErrorText))
                          ELSE g.res]
        ELSE [calls |-> <<>>, asked |-> <<>>,
              res |-> Return(Str(GenerateErrorText))]

\* CommandHandler.handle_gemini(message).  asked lists the calls of
\* generate_response, each with its argument and how it ended.
handle_gemini(self, message, lib, net) ==
    LET model == dict_get(self.models, KwGemini)
    IN  IF model # None
        THEN LET g == GeminiGenerateResponse(model, message, lib, net)
             IN  [calls |-> g.calls,
                  asked |-> <<[backend |-> BackendName(KwGemini),
                               question |-> message,
                               res |-> g.res]>>,
                  res |-> IF g.res.k = "raise"
                          THEN Return(Str(GenerateErrorText))
                          ELSE g.res]
        ELSE [calls |-> <<>>, asked |-> <<>>,
              res |-> Return(Str(GeminiUnavailableText))]

\* CommandHandler.handle_openai(message)
handle_openai(self, message, net) ==
    LET model == dict_get(self.models, KwOpenai)
    IN  IF model # None
        THEN LET g == OpenaiGenerateResponse(model, message, net)
             IN  [calls |-> g.calls,
                  asked |-> <<[backend |-> BackendName(KwOpenai),
                               question |-> message,
                               res |-> g.res]>>,
                  res |-> IF g.res.k = "raise"
                          THEN Return(Str(GenerateErrorText))
                          ELSE g.res]
        ELSE [calls |-> <<>>, asked |-> <<>>,
              res |-> Return(Str(OpenaiUnavailableText))]

\* CommandHandler.handle_default(message)
handle_default(self, message) ==
    [calls |-> <<>>, asked |-> <<>>, res |-> Return(Str(DefaultText))]

\* A lookup that falls back to the first handler of the mapping.
ResolveHandlerFirstEntry(self, command) ==
    IF command \in DOMAIN self.commands
    THEN Return(self.commands[command])
    ELSE Return("handle_gemini")

\* A lookup by subscript, self.commands[command]: KeyError for a command
\* that is no key.
ResolveHandlerSubscript(self, command) ==
    IF command \in DOMAIN self.commands
    THEN Return(self.commands[command])
    ELSE Raise("KeyError")

\* Line 57: self.commands.get(command, self.handle_default), outside the try.
ResolveHandler(self, command) ==
    IF command \in DOMAIN self.commands
    THEN Return(self.commands[command])
    ELSE Return("handle_default")

\* handler(message), for the bound method the mapping names.
CallHandler(self, handler, message, lib, net) ==
    CASE handler = "handle_gemini" -> handle_gemini(self, message, lib, net)
      [] handler = "handle_openai" -> handle_openai(self, message, net)
      [] OTHER -> handle_default(self, message)

\* CommandHandler.handle_command(command, message).  invoked lists the
\* handlers called, each with its argument.
handle_command(self, command, message, lib, net) ==
    LET handler == ResolveHandler(self, command)
    IN  IF handler.k = "raise"
        THEN [calls |-> <<>>, asked |-> <<>>, invoked |-> <<>>,
              res |-> handler]
        ELSE LET h == CallHandler(self, handler.v, message, lib, net)
             IN  [calls |-> h.calls, asked |-> h.asked,
                  invoked |-> <<[handler |-> handler.v, message |-> message]>>,
                  res |-> IF h.res.k = "raise"
                          THEN Return(Str(CommandErrorText))
                          ELSE h.res]

-----------------------------------------------------------------------------
(* src/app.py *)

\* An except clause that prints and re-raises, as the backends' do.
bot_except_reraise(e) == Raise(e)

\* The except clause of bot(), lines 45-47: prints e, returns the apology.
bot_except(e) == Return([root |-> "Message", body |-> Str(ApologyText)])

\* bot(): the locals of the run, what it called, the exception its except
\* clause caught (or None) and how it ended (out).  msg.body(response) sets
\* the body to response, also when response is None.
bot(self, form, lib, net) ==
    LET incoming_msg == form_get(form, "Body", <<>>)
        words == str_split(incoming_msg)
        start == [incoming_msg |-> incoming_msg, first_word |-> None,
                  message |-> None, response |-> None, calls |-> <<>>,
                  asked |-> <<>>, invoked |-> <<>>, caught |-> None,
                  out |-> Blocked]
    IN  IF words = <<>>
        THEN \* line 30: [0] of an empty list raises IndexError
             [start EXCEPT !.caught = Raise("IndexError"),
                           !.out = bot_except("IndexError")]
        ELSE LET first_word == str_lower(words[1])
                 message == str_join(<<" ">>, Tail(words))
                 c == handle_command(self, first_word, message, lib, net)
                 called == [start EXCEPT !.first_word = Str(first_word),
                                         !.message = Str(message),
                                         !.calls = c.calls,
                                         !.asked = c.asked,
                                         !.invoked = c.invoked]
             IN  CASE c.res.k = "raise" ->
                        [called EXCEPT !.caught = c.res,
                                       !.out = bot_except(c.res.e)]
                   [] c.res.k = "blocked" -> called
                   [] OTHER ->
                        [called EXCEPT !.response = c.res.v,
                                       !.out = Return([root |-> "Response",
                                                       body |-> c.res.v])]

-----------------------------------------------------------------------------
(* The inputs. *)

\* The environment the process starts in: the API keys and model names
\* all set, or none of them.
Envs ==
    {[GEMINI_API_KEY |-> IF set THEN Str(<<"g", "k">>) ELSE None,
      OPENAI_API_KEY |-> IF set THEN Str(<<"s", "k">>) ELSE None,
      GEMINI_MODEL |-> IF set THEN Str(<<"g", "p">>) ELSE None,
      OPENAI_MODEL |-> IF set THEN Str(<<"d", "v">>) ELSE None] :
        set \in BOOLEAN}

\* What request bodies are made of: whitespace, the two keywords in some
\* letter case, another word.
Pieces ==
    {<<" ">>, <<"\t">>, <<"G", "e", "M", "i", "N", "i">>,
     <<"o", "p", "e", "n", "a", "i">>, <<"H", "i">>}

RECURSIVE BodiesOf(_)
BodiesOf(n) ==
    IF n = 0 THEN {<<>>}
    ELSE LET shorter == BodiesOf(n - 1)
         IN  shorter \cup {b \o q : b \in shorter, q \in Pieces}

Bodies == BodiesOf(MaxPieces)

\* A POST with no Body field.
NoBody == [f \in {} |-> <<>>]

Forms == {[Body |-> b] : b \in Bodies} \cup {NoBody}

\* The bodies of the requests that run side by side.
ConcBodies ==
    {<<>>,
     <<"H", "i">>,
     <<"G", "e", "M", "i", "N", "i", " ", "H", "i">>,
     <<"o", "p", "e", "n", "a", "i", " ", " ", "H", "i">>}

ConcForms == {[Body |-> b] : b \in ConcBodies}

-----------------------------------------------------------------------------
(* The state machine. *)

Idle == [pc |-> "idle"]

Init ==
    /\ env \in Envs
    /\ genai = "unconfigured"
    /\ app = "import"
    /\ command_handler = None
    /\ req = [r \in 1..1 |-> Idle]

\* app.py:7 at import: command_handler = CommandHandler().  An exception
\* ends the import, and the process with it.
Startup(configure) ==
    /\ app = "import"
    /\ LET ch == CommandHandler(env, configure)
       IN  /\ app' = IF ch.k = "raise" THEN "crashed" ELSE "serving"
           /\ command_handler' = IF ch.k = "raise" THEN None ELSE ch.v
    /\ genai' = IF configure = "raise" THEN "failed" ELSE "configured"
    /\ UNCHANGED <<env, req>>

\* A Receive whose wrapper handler takes its instance out of the mapping
\* (self.models.pop(key)) for the time of the call.
ReceivePopsModel(r, forms) ==
    /\ app = "serving"
    /\ req[r].pc = "idle"
    /\ \E form \in forms, lib \in {"ok", "raise"} :
          LET run == bot(command_handler, form, lib, Pending)
              used == {key \in DOMAIN command_handler.models :
                          \E i \in 1..Len(run.asked) :
                              run.asked[i].backend = BackendName(key)}
          IN  /\ req' = [req EXCEPT ![r] =
                            [pc |-> IF run.out = Blocked THEN "calling"
                                    ELSE "done",
                             form |-> form, net |-> Pending, run |-> run]]
              /\ command_handler' =
                    [command_handler EXCEPT !.models =
                        [key \in DOMAIN command_handler.models \ used |->
                            command_handler.models[key]]]
    /\ UNCHANGED <<env, genai, app>>

\* A POST to /bot with one of forms: bot() runs to its end, or to the
\* outbound call it waits on.
Receive(r, forms) ==
    /\ app = "serving"
    /\ req[r].pc = "idle"
    /\ \E form \in forms, lib \in {"ok", "raise"} :
          LET run == bot(command_handler, form, lib, Pending)
          IN  req' = [req EXCEPT ![r] =
                         [pc |-> IF run.out = Blocked THEN "calling"
                                 ELSE "done",
                          form |-> form, net |-> Pending, run |-> run]]
    /\ UNCHANGED <<env, genai, app, command_handler>>

\* The outbound call of request r comes back: bot() runs to its end.
ProviderReturn(r) ==
    /\ req[r].pc = "calling"
    /\ \E net \in OutcomesOf(req[r].run.calls[Len(req[r].run.calls)]) :
          LET run == bot(command_handler, req[r].form, "ok", net)
          IN  req' = [req EXCEPT ![r] =
                         [pc |-> IF run.out = Blocked THEN "calling"
                                 ELSE "done",
                          form |-> req[r].form, net |-> net, run |-> run]]
    /\ UNCHANGED <<env, genai, app, command_handler>>

\* The reply of request r has been sent.
Finish(r) ==
    /\ req[r].pc = "done"
    /\ req' = [req EXCEPT ![r] = Idle]
    /\ UNCHANGED <<env, genai, app, command_handler>>

Next ==
    \/ \E configure \in {"ok", "raise"} : Startup(configure)
    \/ \E r \in DOMAIN req : Receive(r, Forms)
    \/ \E r \in DOMAIN req : ProviderReturn(r)
    \/ \E r \in DOMAIN req : Finish(r)

Spec == Init /\ [][Next]_vars

\* Requests handled side by side (Flask serves each request on its own
\* thread): NumRequests of them in flight, each stopping only at its
\* outbound call.
InitConc ==
    /\ env \in Envs
    /\ genai = "unconfigured"
    /\ app = "import"
    /\ command_handler = None
    /\ req = [r \in 1..NumRequests |-> Idle]

NextConc ==
    \/ \E configure \in {"ok", "raise"} : Startup(configure)
    \/ \E r \in DOMAIN req : Receive(r, ConcForms)
    \/ \E r \in DOMAIN req : ProviderReturn(r)
    \/ \E r \in DOMAIN req : Finish(r)

SpecConc == InitConc /\ [][NextConc]_vars

\* The handlers as units: a dispatcher whose models mapping holds any part
\* of what __init__ puts there (an entry deleted or never set), serving.
UnitEnvs == {e \in Envs : e.GEMINI_MODEL # None}

InitUnit ==
    /\ env \in UnitEnvs
    /\ genai = "configured"
    /\ app = "serving"
    /\ \E keys \in SUBSET {KwGemini, KwOpenai} :
          LET ch == CommandHandler(env, "ok").v
          IN  command_handler =
                 [ch EXCEPT !.models = [key \in keys |-> ch.models[key]]]
    /\ req = [r \in 1..1 |-> Idle]

NextUnit ==
    \/ \E r \in DOMAIN req : Receive(r, Forms)
    \/ \E r \in DOMAIN req : ProviderReturn(r)
    \/ \E r \in DOMAIN req : Finish(r)

SpecUnit == InitUnit /\ [][NextUnit]_vars

-----------------------------------------------------------------------------
(* The vocabulary of the properties: what a message holds, stated over its *)
(* characters and not by running the code's own parsing.                   *)

Busy(r) == req[r].pc # "idle"

Done(r) == req[r].pc = "done"

\* The raw text of request r: its Body field, empty when there is none.
BodyOf(r) ==
    IF "Body" \in DOMAIN req[r].form THEN req[r].form["Body"] ELSE <<>>

\* s holds no character that is not whitespace.
IsBlank(s) == \A i \in 1..Len(s) : s[i] \in Whitespace

\* The places where a word of s starts, and where the word starting at i ends.
WordStarts(s) ==
    {i \in 1..Len(s) :
        s[i] \notin Whitespace /\ (i = 1 \/ s[i - 1] \in Whitespace)}

WordEnd(s, i) ==
    CHOOSE j \in i..Len(s) :
        /\ \A n \in i..j : s[n] \notin Whitespace
        /\ (j = Len(s) \/ s[j + 1] \in Whitespace)

\* The whitespace-delimited tokens of s, in order.
WordsOf(s) ==
    [n \in 1..Cardinality(WordStarts(s)) |->
        LET i == CHOOSE x \in WordStarts(s) :
                    Cardinality({y \in WordStarts(s) : y < x}) = n - 1
        IN  SubSeq(s, i, WordEnd(s, i))]

\* w is keyword kw in some letter case.
IsKeyword(w, kw) ==
    /\ Len(w) = Len(kw)
    /\ \A i \in 1..Len(kw) :
          \/ w[i] = kw[i]
          \/ \E n \in 1..Len(LowerLetters) :
                LowerLetters[n] = kw[i] /\ UpperLetters[n] = w[i]

\* q is the words ws with exactly one space between neighbours, nothing else.
IsSpaced(q, ws) ==
    /\ WordsOf(q) = ws
    /\ \A i \in 1..Len(q) :
          q[i] \in Whitespace =>
             /\ q[i] = " "
             /\ 1 < i /\ i < Len(q)
             /\ q[i - 1] \notin Whitespace
             /\ q[i + 1] \notin Whitespace

\* t without the whitespace at its two ends.
Trimmed(t) ==
    LET inner == {i \in 1..Len(t) : t[i] \notin Whitespace}
    IN  IF inner = {} THEN <<>>
        ELSE SubSeq(t, CHOOSE i \in inner : \A x \in inner : i <= x,
                       CHOOSE j \in inner : \A x \in inner : x <= j)

\* Request r names keyword kw: its first token is kw in some letter case.
Names(r, kw) ==
    /\ Busy(r)
    /\ ~IsBlank(BodyOf(r))
    /\ IsKeyword(WordsOf(BodyOf(r))[1], kw)

\* The outbound call of request r came back as a failure.
CallFailed(r) ==
    /\ Done(r)
    /\ req[r].run.calls # <<>>
    /\ req[r].net.k \notin {"ok", "pending"}

-----------------------------------------------------------------------------
(* The claims. *)

\* C1 (as claimed): whenever a backend's outbound call fails, the wrapper
\* handler returns "An error occurred while generating a response.",
\* handle_command does not raise, and that string is the reply body.
C1_FailedCallGivesGenerateError ==
    \A r \in DOMAIN req :
        CallFailed(r) =>
            /\ req[r].run.caught = None
            /\ req[r].run.response = Str(GenerateErrorText)
            /\ req[r].run.out = Return([root |-> "Response",
                                        body |-> Str(GenerateErrorText)])

\* C2 (as claimed): a request whose Body is empty or only whitespace has an
\* empty command keyword and an empty question text, and its reply body is
\* "Sorry, I didn't understand that command.".
C2_BlankBodyGetsDefault ==
    \A r \in DOMAIN req :
        (Busy(r) /\ IsBlank(BodyOf(r))) =>
            /\ req[r].run.first_word = Str(<<>>)
            /\ req[r].run.message = Str(<<>>)
            /\ req[r].run.out = Return([root |-> "Response",
                                        body |-> Str(DefaultText)])

WrapperOf(kw) == IF kw = KwGemini THEN "handle_gemini" ELSE "handle_openai"

BackendOf(kw) == IF kw = KwGemini THEN "gemini" ELSE "openai"

UnavailableOf(kw) ==
    IF kw = KwGemini THEN GeminiUnavailableText ELSE OpenaiUnavailableText

\* C3: a message whose first token is neither "gemini" nor "openai" in any
\* letter case is answered "Sorry, I didn't understand that command.",
\* whatever follows the token, and no outbound call is made for it.
C3_UnknownKeywordGetsDefault ==
    \A r \in DOMAIN req :
        (/\ Busy(r)
         /\ ~IsBlank(BodyOf(r))
         /\ ~IsKeyword(WordsOf(BodyOf(r))[1], KwGemini)
         /\ ~IsKeyword(WordsOf(BodyOf(r))[1], KwOpenai)) =>
            /\ Done(r)
            /\ req[r].run.out = Return([root |-> "Response",
                                        body |-> Str(DefaultText)])
            /\ req[r].run.calls = <<>>
            /\ req[r].run.asked = <<>>

\* An unknown first token followed by "openai" has been answered.
C3_Witness ==
    \E r \in DOMAIN req :
        /\ Done(r)
        /\ ~IsBlank(BodyOf(r))
        /\ Len(WordsOf(BodyOf(r))) = 2
        /\ ~IsKeyword(WordsOf(BodyOf(r))[1], KwGemini)
        /\ ~IsKeyword(WordsOf(BodyOf(r))[1], KwOpenai)
        /\ IsKeyword(WordsOf(BodyOf(r))[2], KwOpenai)

\* C4: a message whose first token is a keyword in any letter case reaches
\* the wrapper handler of that keyword's backend and no other, with the
\* remaining tokens joined by single spaces (so only the tokens matter, not
\* the whitespace around them); when the backend's call succeeds, the reply
\* body is the text the backend returned.
C4_KeywordReachesItsBackend ==
    \A r \in DOMAIN req : \A kw \in {KwGemini, KwOpenai} :
        Names(r, kw) =>
            LET run == req[r].run
                rest == Tail(WordsOf(BodyOf(r)))
            IN  /\ Len(run.invoked) = 1
                /\ run.invoked[1].handler = WrapperOf(kw)
                /\ IsSpaced(run.invoked[1].message, rest)
                /\ Len(run.asked) = 1
                /\ run.asked[1].backend = BackendOf(kw)
                /\ run.asked[1].question = run.invoked[1].message
                /\ (Done(r) /\ req[r].net.k = "ok") =>
                      LET text == IF kw = KwGemini THEN req[r].net.text
                                  ELSE Trimmed(req[r].net.text)
                      IN  /\ run.asked[1].res = Return(Str(text))
                          /\ run.out = Return([root |-> "Response",
                                               body |-> Str(text)])

\* A keyword in mixed case followed by two more tokens, a tab among the
\* separators, has been answered by its backend.
C4_Witness ==
    \E r \in DOMAIN req :
        /\ Done(r)
        /\ Names(r, KwGemini)
        /\ req[r].net.k = "ok"
        /\ WordsOf(BodyOf(r))[1] # KwGemini
        /\ Len(WordsOf(BodyOf(r))) = 3
        /\ \E i \in 1..Len(BodyOf(r)) : BodyOf(r)[i] = "\t"

\* C5: no exception escapes bot(): a request that ends, ends with a reply,
\* and when an exception reached the except clause of bot() the reply is
\* exactly "Sorry, an error occurred while processing your request.".
C5_NothingEscapesBot ==
    \A r \in DOMAIN req :
        /\ Busy(r) => req[r].run.out.k # "raise"
        /\ Done(r) =>
              /\ req[r].run.out.k = "return"
              /\ req[r].run.caught # None =>
                    req[r].run.out.v.body = Str(ApologyText)

\* A request whose parsing raised has been answered with the apology.
C5_Witness ==
    \E r \in DOMAIN req :
        /\ Done(r)
        /\ req[r].run.caught = Raise("IndexError")
        /\ req[r].run.out.v.body = Str(ApologyText)

\* C6: when the models mapping holds no instance for a backend, that
\* backend's wrapper handler returns "Gemini model is not available." /
\* "OpenAI model is not available." and no outbound call is made.
C6_AbsentModelIsReported ==
    \A r \in DOMAIN req : \A kw \in {KwGemini, KwOpenai} :
        (Names(r, kw) /\ kw \notin DOMAIN command_handler.models) =>
            /\ Done(r)
            /\ Len(req[r].run.invoked) = 1
            /\ req[r].run.invoked[1].handler = WrapperOf(kw)
            /\ req[r].run.response = Str(UnavailableOf(kw))
            /\ req[r].run.out = Return([root |-> "Response",
                                        body |-> Str(UnavailableOf(kw))])
            /\ req[r].run.asked = <<>>
            /\ req[r].run.calls = <<>>

\* A "gemini" request has been answered by a dispatcher with no Gemini
\* instance.
C6_Witness ==
    \E r \in DOMAIN req :
        /\ Done(r)
        /\ Names(r, KwGemini)
        /\ KwGemini \notin DOMAIN command_handler.models
        /\ KwOpenai \in DOMAIN command_handler.models
        /\ req[r].run.response = Str(GeminiUnavailableText)

\* C7 (as claimed): every call of generate_response makes exactly one
\* outbound call, and a request makes at most one in all.
C7_ExactlyOneCallPerInvocation ==
    \A r \in DOMAIN req :
        Busy(r) =>
            /\ Len(req[r].run.calls) <= 1
            /\ Len(req[r].run.asked) = 1 => Len(req[r].run.calls) = 1

\* C7 (amended): a request makes at most one outbound call, also when the
\* call fails, and none without a call of generate_response; a call of
\* generate_response makes exactly one, except that Gemini's makes none
\* when genai.GenerativeModel(self.model) raises before the call.
C7_AtMostOneCallPerRequest ==
    \A r \in DOMAIN req :
        Busy(r) =>
            LET run == req[r].run
            IN  /\ Len(run.calls) <= 1
                /\ Len(run.asked) <= 1
                /\ run.asked = <<>> => run.calls = <<>>
                /\ Len(run.asked) = 1 =>
                      IF /\ run.asked[1].backend = "gemini"
                         /\ run.asked[1].res = Raise("GenerativeModel")
                      THEN run.calls = <<>>
                      ELSE Len(run.calls) = 1

\* An OpenAI request whose one call failed has been answered.
C7_Witness ==
    \E r \in DOMAIN req :
        /\ CallFailed(r)
        /\ Names(r, KwOpenai)
        /\ Len(req[r].run.calls) = 1

C10_ConfigurationErrors ==
    /\ genai = "failed" =>
          /\ app = "crashed"
          /\ command_handler = None
          /\ \A r \in DOMAIN req : ~Busy(r)
    /\ genai = "configured" =>
          /\ app = "serving"
          /\ KwOpenai \in DOMAIN command_handler.models
          /\ command_handler.models[KwOpenai].api_key = env.OPENAI_API_KEY
    /\ \A r \in DOMAIN req :
          (Done(r) /\ Names(r, KwOpenai) /\ env.OPENAI_API_KEY = None) =>
              /\ CallFailed(r)
              /\ req[r].run.asked[1].res = Return(None)

\* With no OpenAI key, the dispatcher serves and an "openai" request failed.
C10_Witness ==
    \E r \in DOMAIN req :
        /\ env.OPENAI_API_KEY = None
        /\ app = "serving"
        /\ Done(r)
        /\ Names(r, KwOpenai)
        /\ req[r].run.asked[1].res = Return(None)

\* The reply to a message b whose outbound call (if any) ended as net, when
\* nothing else is going on: the apology for a blank message; for "gemini"
\* the provider's text, or the generate error when there is none; for
\* "openai" the provider's text trimmed, or no body at all; the default
\* otherwise.
ReplyAlone(b, net) ==
    IF IsBlank(b)
    THEN [root |-> "Message", body |-> Str(ApologyText)]
    ELSE [root |-> "Response",
          body |->
             LET w == WordsOf(b)[1]
             IN  IF IsKeyword(w, KwGemini)
                 THEN IF net.k = "ok" THEN Str(net.text)
                      ELSE Str(GenerateErrorText)
                 ELSE IF IsKeyword(w, KwOpenai)
                 THEN IF net.k = "ok" THEN Str(Trimmed(net.text)) ELSE None
                 ELSE Str(DefaultText)]

\* C8: however the requests in flight interleave, each reply is the one
\* its message and the outcome of its own outbound call give when handled
\* alone, and no step of a request changes the dispatcher (its command
\* mapping, its backend instances and their api key, model and word limit)
\* or the environment they were read from.
C8_RequestsAreIsolated ==
    /\ [](\A r \in DOMAIN req :
             Done(r) =>
                req[r].run.out = Return(ReplyAlone(BodyOf(r), req[r].net)))
    /\ [][app = "serving" =>
             /\ command_handler' = command_handler
             /\ env' = env
             /\ app' = app]_vars

\* Two requests for the same backend are in flight: one has its reply
\* while the other still waits on its call.
C8_Witness ==
    \E r1, r2 \in DOMAIN req :
        /\ r1 # r2
        /\ Done(r1)
        /\ req[r1].net.k = "ok"
        /\ req[r2].pc = "calling"
        /\ Names(r1, KwGemini)
        /\ Names(r2, KwGemini)

====
